---- MODULE Spec2Model ----
(***************************************************************************)
(* A model of the Blockchain class of src/src/blockchain.js: the chain     *)
(* array, the height counter, the promises handed out by submitStar and    *)
(* one validateChain call running between its await points.                *)
(*                                                                         *)
(* JavaScript strings are sequences of one-character strings, so that      *)
(* split(':'), parseInt, toString and slice(0,-3) are computed and not     *)
(* assumed.  Array indices in the source are 0-based; the element the      *)
(* source calls chain[i] is chain[i+1] here (see At).                      *)
(***************************************************************************)
EXTENDS Integers, Sequences, FiniteSets

VARIABLES
    chain,      \* this.chain
    height,     \* this.height
    nowMs,      \* the value new Date().getTime() returns at this moment
    pc,         \* "constructor" while the constructor runs, then "ready"
    promises,   \* the promises returned by submitStar not yet observed by the caller
    vc,         \* the running validateChain call (its locals and await position)
    gs,         \* the running getStarsByWalletAddress call (locals, await position)
    ret,        \* the latest call that ran to its end at once, and what it resolved with
    issued      \* the challenge messages requestMessageOwnershipVerification handed out

vars == <<chain, height, nowMs, pc, promises, vc, gs, ret, issued>>

----------------------------------------------------------------------------
(* Bounds of the model.                                                    *)

\* Largest chain length explored (genesis included).
MaxChain == 3
\* Largest number of submitStar promises outstanding at once.
MaxPending == 2
\* The clock at construction, in milliseconds (not a multiple of 1000).
StartMs == 1000999
\* The moments at which callers act, in milliseconds after StartMs: at
\* once, and one second before and exactly at the end of the time window.
ClockOffsets == {0, 299000, 300000}

----------------------------------------------------------------------------
(* JavaScript values.                                                      *)

\* null
Null == <<>>

\* Number: an integer or NaN.
Num(v) == [nan |-> FALSE, val |-> v]
NaN == [nan |-> TRUE, val |-> 0]

\* String(undefined), what parseInt sees when handed undefined.
Undefined == <<"u", "n", "d", "e", "f", "i", "n", "e", "d">>

DigitChars == <<"0", "1", "2", "3", "4", "5", "6", "7", "8", "9">>

IsDigit(c) == \E d \in 1..10 : DigitChars[d] = c

DigitVal(c) == (CHOOSE d \in 1..10 : DigitChars[d] = c) - 1

\* Number.prototype.toString() of a non-negative integer.
RECURSIVE toString(_)
toString(n) ==
    IF n < 10 THEN <<DigitChars[n + 1]>>
    ELSE toString(n \div 10) \o <<DigitChars[(n % 10) + 1]>>

\* String.prototype.slice(0, -3): all but the last three characters.
SliceOffLast3(s) == IF Len(s) <= 3 THEN <<>> ELSE SubSeq(s, 1, Len(s) - 3)

\* The value of the longest prefix of decimal digits of s, acc digits read so far.
RECURSIVE ParseDigits(_, _)
ParseDigits(s, acc) ==
    IF s # <<>> /\ IsDigit(Head(s))
    THEN ParseDigits(Tail(s), acc * 10 + DigitVal(Head(s)))
    ELSE acc

\* parseInt(s) for the strings of the model (no sign, no blanks, no 0x):
\* the leading decimal digits, NaN when s does not start with a digit.
parseInt(s) ==
    IF s # <<>> /\ IsDigit(Head(s)) THEN Num(ParseDigits(s, 0)) ELSE NaN

\* The fields of s from position from on, the scan standing at position i.
RECURSIVE SplitScan(_, _, _, _)
SplitScan(s, sep, i, from) ==
    IF i > Len(s) THEN <<SubSeq(s, from, Len(s))>>
    ELSE IF s[i] = sep
    THEN <<SubSeq(s, from, i - 1)>> \o SplitScan(s, sep, i + 1, i + 1)
    ELSE SplitScan(s, sep, i + 1, from)

\* String.prototype.split(sep) for a one-character separator.
split(s, sep) == SplitScan(s, sep, 1, 1)

\* arr[i] of a JavaScript array of strings, as parseInt reads it.
ArrayGet(arr, i) == IF i + 1 <= Len(arr) THEN arr[i + 1] ELSE Undefined

\* a - b on Numbers.
Minus(a, b) == IF a.nan \/ b.nan THEN NaN ELSE Num(a.val - b.val)

\* new Date().getTime().toString().slice(0,-3) at clock value ms.
EpochSeconds(ms) == SliceOffLast3(toString(ms))

----------------------------------------------------------------------------
(* The collaborators: block.js, crypto-js/sha256, bitcoinjs-message.       *)

\* Buffer.from(JSON.stringify(data)).toString('hex'): the body of a block.
Encode(data) == <<"hex", data>>

\* JSON.parse(hex2ascii(body)).
Decode(body) == body[2]

\* What a body and a hash written by somebody else hold.
ForgedBody == Encode([data |-> "forged"])
ForgedHash == <<"forged">>

\* A body that is not the hex of a JSON text, and whether JSON.parse returns
\* for a body instead of throwing.
CorruptBody == <<"corrupt", Null>>
Decodes(body) == body[1] = "hex"

\* new BlockClass.Block(data).
Block(data) ==
    [hash |-> Null, height |-> 0, body |-> Encode(data), time |-> Null,
     previousBlockHash |-> Null]

\* SHA256(JSON.stringify(block)).toString(): injective in the block's fields.
SHA256(block) ==
    <<"sha256", block.hash, block.height, block.body, block.time,
      block.previousBlockHash>>

\* Block.validate(): recompute the hash of the block with its hash field
\* cleared and compare it with the stored hash.
BlockValidate(block) == SHA256([block EXCEPT !.hash = Null]) = block.hash

\* A signature made with address's key over message.
Sign(message, address) == <<"sig", message, address>>

\* A string that is no signature at all.
Garbage == <<"garbage">>

\* bitcoinMessage.verify(message, address, signature): "throw" for an
\* ill-formed signature, else whether the signature is address's over message.
BitcoinVerify(message, address, signature) ==
    IF signature = Garbage THEN "throw"
    ELSE IF signature = Sign(message, address) THEN "true" ELSE "false"

----------------------------------------------------------------------------
(* The inputs the callers draw from.                                       *)

Addresses == {<<"A">>, <<"B">>}

Stars == {"star1"}

\* The fixed tag that ends a challenge message.
Tag == <<"s", "t", "a", "r", "R", "e", "g", "i", "s", "t", "r", "y">>

\* requestMessageOwnershipVerification(address) at clock value ms:
\* `${address}:${seconds}:starRegistry`.
requestMessageOwnershipVerification(address, ms) ==
    address \o <<":">> \o EpochSeconds(ms) \o <<":">> \o Tag

\* The messages a caller may submit for address: the challenge issued at
\* construction time, and ill-shaped variants of it.
Messages(address) ==
    LET ts == EpochSeconds(StartMs)
    IN { requestMessageOwnershipVerification(address, StartMs),  \* A:1000:starRegistry
         address \o <<":">> \o ts \o <<":">> \o Tag \o <<":", "x">>, \* four fields
         address,                                                 \* one field
         address \o <<":", "x", ":">> \o Tag }                    \* no number

\* The signatures a caller may submit with (message, address).
Signatures(message, address) ==
    {Sign(message, a) : a \in Addresses} \cup {Garbage}

\* The argument lists (address, message, signature, star) callers hand to
\* submitStar.
Calls ==
    UNION { UNION { { [address |-> a, message |-> m, signature |-> s,
                       star |-> st] : s \in Signatures(m, a), st \in Stars }
                    : m \in Messages(a) }
            : a \in Addresses }

----------------------------------------------------------------------------
(* The Blockchain class.                                                   *)

\* The minutes of the time window, and the seconds of a minute.
MinutesLimit == 5
SecondsPerMinute == 60

\* chain[i] of the source (0-based).
At(i) == chain[i + 1]

\* The idle getStarsByWalletAddress slot.
GsIdle ==
    [pc |-> "idle", address |-> Null, chainlen |-> 0, started |-> 0,
     result |-> Null]

\* No call has returned yet.
NoCall == [op |-> "none", arg |-> Null, state |-> "none", value |-> Null]

\* The idle validateChain slot.
VcIdle ==
    [pc |-> "idle", chainlen |-> 0, i |-> 0, blocki_valid |-> TRUE,
     errorLog |-> <<>>, result |-> Null]

\* CompletedBlock with the link test on this.height instead of chain.length:
\* the first block after genesis is left without a previous hash.
CompletedBlockLinkOnHeight(block) ==
    LET timed == [block EXCEPT !.time = EpochSeconds(nowMs),
                               !.height = Len(chain)]
        linked == IF height > 0
                  THEN [timed EXCEPT
                          !.previousBlockHash = chain[Len(chain)].hash]
                  ELSE timed
    IN [linked EXCEPT !.hash = SHA256(linked)]

\* CompletedBlock reading the chain as it was before the oldest accepted
\* submission still outstanding: two pending calls share one snapshot of
\* chain.length and of the last hash.
CompletedBlockStaleSnapshot(block) ==
    LET accepted == {k \in 1..Len(promises) : promises[k].state = "fulfilled"}
        len == IF accepted = {} THEN Len(chain)
               ELSE promises[CHOOSE k \in accepted :
                                \A j \in accepted : k <= j].value.height
        timed == [block EXCEPT !.time = EpochSeconds(nowMs), !.height = len]
        linked == IF len > 0
                  THEN [timed EXCEPT !.previousBlockHash = chain[len].hash]
                  ELSE timed
    IN [linked EXCEPT !.hash = SHA256(linked)]

\* The fields _addBlock gives block before it pushes it: time, height,
\* previousBlockHash (only when the chain is not empty) and then hash.
CompletedBlock(block) ==
    LET timed == [block EXCEPT !.time = EpochSeconds(nowMs),
                               !.height = Len(chain)]
        linked == IF Len(chain) > 0
                  THEN [timed EXCEPT
                          !.previousBlockHash = chain[Len(chain)].hash]
                  ELSE timed
    IN [linked EXCEPT !.hash = SHA256(linked)]

\* _addBlock without the update of this.height.
_addBlockHeightKept(block) ==
    /\ chain' = Append(chain, CompletedBlock(block))
    /\ height' = height

\* _addBlock storing the block at chain[this.height] instead of pushing it.
_addBlockStoreAtHeight(block) ==
    /\ chain' = IF height >= 0
                THEN [chain EXCEPT ![height + 1] = CompletedBlock(block)]
                ELSE Append(chain, CompletedBlock(block))
    /\ height' = height + 1

\* _addBlock(block): runs to its end without an await; the promise it
\* returns resolves with the pushed block.
_addBlock(block) ==
    /\ chain' = Append(chain, CompletedBlock(block))
    /\ height' = height + 1

\* initializeChain testing for a height below 1.
initializeChainBelowOne ==
    IF height < 1
    THEN _addBlock(Block([data |-> "Genesis Block"]))
    ELSE UNCHANGED <<chain, height>>

\* initializeChain testing for height 0 instead of -1.
initializeChainOnZero ==
    IF height = 0
    THEN _addBlock(Block([data |-> "Genesis Block"]))
    ELSE UNCHANGED <<chain, height>>

\* initializeChain(), run to its await: adds the genesis block when
\* height is -1 and does nothing otherwise.
initializeChain ==
    IF height = -1
    THEN _addBlock(Block([data |-> "Genesis Block"]))
    ELSE UNCHANGED <<chain, height>>

\* The constructor's last statement; chain = [] and height = -1 are set.
Constructor ==
    /\ pc = "constructor"
    /\ initializeChain
    /\ pc' = "ready"
    /\ UNCHANGED <<nowMs, promises, vc, gs, ret, issued>>

\* The time test left out.
LapsedAnyTime(d) == TRUE

\* The time test without the division by 60: seconds compared with 5.
LapsedSecondsLessThanLimit(d) ==
    /\ ~d.nan
    /\ d.val < MinutesLimit

\* The time test with <= for <.
LapsedAtMostLimit(d) ==
    /\ ~d.nan
    /\ d.val <= MinutesLimit * SecondsPerMinute

\* (d / 60) < 5 for the Number d of elapsed seconds: exact, d being an
\* integer; false for NaN.
LapsedLessThanLimit(d) ==
    /\ ~d.nan
    /\ d.val < MinutesLimit * SecondsPerMinute

\* The locals of a submitStar call.
sent_time(message) == parseInt(ArrayGet(split(message, ":"), 1))
curr_time == parseInt(EpochSeconds(nowMs))

\* The promise submitStar returns, as its executor leaves it.
Promise(state, value, err_msg) ==
    [state |-> state, value |-> value, err_msg |-> err_msg]

TimeLapsedMsg == "Error submitting star:  time lapsed more than 5 minutes."
VerificationFailedMsg == "Error submitting star: message verification failed."

\* `if (ver)` passing only once some challenge has been handed out.
TruthyIfIssued(ver) == ver = "true" /\ issued # {}

\* `if (ver)` on a value that is always truthy (a promise, say).
TruthyAlways(ver) == TRUE

\* `if (ver)` of line 150, for the boolean verify returned.
Truthy(ver) == ver = "true"

\* submitStar(address, message, signature, star): the executor runs to its
\* end without an await.  A throw of verify ends the executor before it
\* calls resolve or reject, so the promise stays pending.
submitStar(address, message, signature, star) ==
    LET lapsed == Minus(curr_time, sent_time(message))
        ver == BitcoinVerify(message, address, signature)
        data == [address |-> address, signature |-> signature,
                 message |-> message, star |-> star]
    IN IF LapsedLessThanLimit(lapsed)
       THEN IF ver = "throw"
            THEN /\ promises' = Append(promises, Promise("pending", Null, ""))
                 /\ UNCHANGED <<chain, height>>
            ELSE IF Truthy(ver)
            THEN /\ Len(chain) < MaxChain
                 /\ _addBlock(Block(data))
                 /\ promises' = Append(promises,
                        Promise("fulfilled", CompletedBlock(Block(data)), ""))
            ELSE /\ promises' = Append(promises,
                        Promise("rejected", Null, VerificationFailedMsg))
                 /\ UNCHANGED <<chain, height>>
       ELSE /\ promises' = Append(promises,
                   Promise("rejected", Null, TimeLapsedMsg))
            /\ UNCHANGED <<chain, height>>

\* A caller calls submitStar with these arguments.
SubmitStarCall(address, message, signature, star) ==
    /\ pc = "ready"
    /\ Len(promises) < MaxPending
    /\ submitStar(address, message, signature, star)
    /\ UNCHANGED <<nowMs, pc, vc, gs, ret, issued>>

\* A caller calls submitStar.
SubmitStar ==
    \E c \in Calls :
      SubmitStarCall(c.address, c.message, c.signature, c.star)

Without(s, k) == SubSeq(s, 1, k - 1) \o SubSeq(s, k + 1, Len(s))

\* The caller of a settled submitStar promise receives its outcome.
Deliver ==
    /\ \E k \in 1..Len(promises) :
         /\ promises[k].state # "pending"
         /\ promises' = Without(promises, k)
    /\ UNCHANGED <<chain, height, nowMs, pc, vc, gs, ret, issued>>

\* The caller of a promise that never settles stops waiting for it.
GiveUp ==
    /\ \E k \in 1..Len(promises) :
         /\ promises[k].state = "pending"
         /\ promises' = Without(promises, k)
    /\ UNCHANGED <<chain, height, nowMs, pc, vc, gs, ret, issued>>

\* Time passes.
Tick ==
    /\ pc = "ready"
    /\ \E d \in ClockOffsets :
         /\ StartMs + d > nowMs
         /\ nowMs' = StartMs + d
    /\ UNCHANGED <<chain, height, pc, promises, vc, gs, ret, issued>>

----------------------------------------------------------------------------
(* validateChain, between its await points.                                *)

\* What the promise of validateChain resolves with: true, or the errorLog.
JsTrue == <<"boolean", TRUE>>
JsArray(list) == <<"array", list>>

\* getChainHeight resolving with chain.length.
getChainLength == Len(chain)

\* getChainHeight(): resolves with this.height as it is at the call.
getChainHeight == height

\* The test with the comparison turned round: (!blocki_valid) === false.
NotValidIsFalse(blocki_valid) == (~blocki_valid) = FALSE

\* `!blocki_valid === true`: the negation binds first, so this is
\* (!blocki_valid) === true.
NotValidIsTrue(blocki_valid) == (~blocki_valid) = TRUE

\* Lines 282-287: resolve(true) on an empty errorLog, else resolve(errorLog).
Resolved(errorLog) ==
    [VcIdle EXCEPT !.pc = "resolved",
                   !.result = IF Len(errorLog) = 0 THEN JsTrue
                              ELSE JsArray(errorLog)]

\* LoopHead leaving the loop as soon as errorLog holds one index.
LoopHeadStopAtFirst(chainlen, i, errorLog) ==
    IF i > chainlen \/ Len(errorLog) > 0 THEN Resolved(errorLog)
    ELSE IF i >= Len(chain) THEN [VcIdle EXCEPT !.pc = "stuck"]
    ELSE [pc |-> "awaitValidate", chainlen |-> chainlen, i |-> i,
          blocki_valid |-> BlockValidate(At(i)), errorLog |-> errorLog,
          result |-> Null]

\* The head of one loop iteration for index i, up to `await blocki.validate()`:
\* past the loop bound the promise resolves; reading chain[i] of a shorter
\* chain gives undefined, whose .validate() throws and leaves the promise
\* pending for ever.
LoopHead(chainlen, i, errorLog) ==
    IF i > chainlen THEN Resolved(errorLog)
    ELSE IF i >= Len(chain) THEN [VcIdle EXCEPT !.pc = "stuck"]
    ELSE [pc |-> "awaitValidate", chainlen |-> chainlen, i |-> i,
          blocki_valid |-> BlockValidate(At(i)), errorLog |-> errorLog,
          result |-> Null]

\* validateChain() is called: line 251 up to its await.
ValidateChainCall ==
    /\ pc = "ready"
    /\ vc.pc = "idle"
    /\ vc' = [VcIdle EXCEPT !.pc = "awaitHeight", !.chainlen = getChainHeight]
    /\ UNCHANGED <<chain, height, nowMs, pc, promises, gs, ret, issued>>

\* The await of line 251 returns: the loop starts at i = 0.
ValidateChainEnterLoop ==
    /\ vc.pc = "awaitHeight"
    /\ vc' = LoopHead(vc.chainlen, 0, <<>>)
    /\ UNCHANGED <<chain, height, nowMs, pc, promises, gs, ret, issued>>

\* The rest of iteration i once `await blocki.validate()` returns (lines
\* 257-277), then the head of the next iteration.
ValidateChainIteration ==
    /\ vc.pc = "awaitValidate"
    /\ vc' =
         IF vc.i = vc.chainlen
         THEN Resolved(IF NotValidIsTrue(vc.blocki_valid)
                       THEN Append(vc.errorLog, vc.i) ELSE vc.errorLog)
         ELSE IF vc.i + 1 >= Len(chain)
         THEN [VcIdle EXCEPT !.pc = "stuck"]
         ELSE LET blockHash == At(vc.i).hash
                  prevHash == At(vc.i + 1).previousBlockHash
              IN LoopHead(vc.chainlen, vc.i + 1,
                          IF NotValidIsTrue(vc.blocki_valid)
                             \/ blockHash # prevHash
                          THEN Append(vc.errorLog, vc.i) ELSE vc.errorLog)
    /\ UNCHANGED <<chain, height, nowMs, pc, promises, gs, ret, issued>>

\* The caller of validateChain receives the result.
ValidateChainDeliver ==
    /\ vc.pc = "resolved"
    /\ vc' = VcIdle
    /\ UNCHANGED <<chain, height, nowMs, pc, promises, gs, ret, issued>>

----------------------------------------------------------------------------
(* The calls that settle their promise before they return.                 *)

\* A caller calls requestMessageOwnershipVerification(address): the promise
\* resolves with the message; no field of the object is read or written.
RequestMessage ==
    /\ pc = "ready"
    /\ \E address \in Addresses :
          issued' = issued \cup
                      {requestMessageOwnershipVerification(address, nowMs)}
    /\ UNCHANGED <<chain, height, nowMs, pc, promises, vc, gs, ret>>

\* A block as the value of a settled promise (null is Null).
TheBlock(block) == <<"block", block>>

\* `let block = blocks[0]; if (block) resolve(block) else resolve(null)` for
\* the array blocks that filter returned: blocks[0] of an empty array is
\* undefined, which is falsy, and a block is truthy.
ResolveFirstOrNull(blocks) ==
    [state |-> "fulfilled",
     value |-> IF Len(blocks) > 0 THEN TheBlock(blocks[1]) ELSE Null]

\* getBlockByHeight comparing p.height with height + 1.
getBlockByHeightOffByOne(h) ==
    LET test(p) == p.height = h + 1
    IN ResolveFirstOrNull(SelectSeq(chain, test))

\* getBlockByHeight(height).
getBlockByHeight(h) ==
    LET test(p) == p.height = h
    IN ResolveFirstOrNull(SelectSeq(chain, test))

\* getBlockByHash(hash).
getBlockByHash(hash) ==
    LET test(b) == b.hash = hash
    IN ResolveFirstOrNull(SelectSeq(chain, test))

\* The heights and hashes callers look up: those of the chain and others.
LookupHeights == -1..MaxChain
LookupHashes == {chain[k].hash : k \in 1..Len(chain)} \cup {ForgedHash}

\* A caller calls getBlockByHeight and holds the settled promise.
GetBlockByHeight ==
    /\ pc = "ready"
    /\ ret = NoCall
    /\ \E h \in LookupHeights :
          ret' = [op |-> "getBlockByHeight", arg |-> h,
                  state |-> getBlockByHeight(h).state,
                  value |-> getBlockByHeight(h).value]
    /\ UNCHANGED <<chain, height, nowMs, pc, promises, vc, gs, issued>>

\* A caller calls getBlockByHash and holds the settled promise.
GetBlockByHash ==
    /\ pc = "ready"
    /\ ret = NoCall
    /\ \E hash \in LookupHashes :
          ret' = [op |-> "getBlockByHash", arg |-> hash,
                  state |-> getBlockByHash(hash).state,
                  value |-> getBlockByHash(hash).value]
    /\ UNCHANGED <<chain, height, nowMs, pc, promises, vc, gs, issued>>

\* A caller calls initializeChain() again on the constructed object.
InitializeChainCall ==
    /\ pc = "ready"
    /\ ret = NoCall
    /\ initializeChain
    /\ ret' = [op |-> "initializeChain", arg |-> Null, state |-> "fulfilled",
               value |-> Undefined]
    /\ UNCHANGED <<nowMs, pc, promises, vc, gs, issued>>

\* The caller has taken the outcome of the call.
Return ==
    /\ ret # NoCall
    /\ ret' = NoCall
    /\ UNCHANGED <<chain, height, nowMs, pc, promises, vc, gs, issued>>

----------------------------------------------------------------------------
(* getStarsByWalletAddress, before and after its one await.                *)

\* The loop of lines 216-233 over the indices first..last: the stars array,
\* and whether an iteration threw (chain[i] is undefined past the end of the
\* chain, and JSON.parse throws on a corrupt body).
RECURSIVE StarsOf(_, _, _)
StarsOf(first, last, address) ==
    IF first > last THEN [threw |-> FALSE, stars |-> <<>>]
    ELSE LET rest == StarsOf(first, last - 1, address)
         IN IF rest.threw THEN rest
            ELSE IF last >= Len(chain) \/ ~Decodes(At(last).body)
            THEN [threw |-> TRUE, stars |-> rest.stars]
            ELSE LET decode_body == Decode(At(last).body)
                     thisadd == IF "address" \in DOMAIN decode_body
                                THEN decode_body.address ELSE Undefined
                 IN IF thisadd = address
                    THEN [rest EXCEPT !.stars =
                            Append(rest.stars, [address |-> thisadd,
                                                star |-> decode_body.star])]
                    ELSE rest

\* The loop with `i < chainlen` as its bound.
StarsLoopBelowChainlen(chainlen, address) == StarsOf(1, chainlen - 1, address)

\* `for (let i = 1; i <= chainlen; i++)`: genesis is skipped.
StarsLoop(chainlen, address) == StarsOf(1, chainlen, address)

\* getStarsByWalletAddress(address) is called: up to the await of line 212.
GetStarsCall ==
    /\ pc = "ready"
    /\ gs.pc = "idle"
    /\ \E address \in Addresses :
          gs' = [GsIdle EXCEPT !.pc = "awaitHeight", !.address = address,
                               !.chainlen = getChainHeight,
                               !.started = Len(chain)]
    /\ UNCHANGED <<chain, height, nowMs, pc, promises, vc, ret, issued>>

\* The await returns and the loop runs to its end without another await:
\* resolve(stars), or a throw inside the async executor, which settles
\* nothing: the promise the caller holds stays pending for ever.
GetStarsLoop ==
    /\ gs.pc = "awaitHeight"
    /\ LET stars == StarsLoop(gs.chainlen, gs.address)
       IN gs' = IF stars.threw THEN [gs EXCEPT !.pc = "stuck"]
                ELSE [gs EXCEPT !.pc = "resolved",
                                !.result = JsArray(stars.stars)]
    /\ UNCHANGED <<chain, height, nowMs, pc, promises, vc, ret, issued>>

\* The caller of getStarsByWalletAddress receives the stars.
GetStarsDeliver ==
    /\ gs.pc = "resolved"
    /\ gs' = GsIdle
    /\ UNCHANGED <<chain, height, nowMs, pc, promises, vc, ret, issued>>

----------------------------------------------------------------------------

Init ==
    /\ chain = <<>>
    /\ height = -1
    /\ nowMs = StartMs
    /\ pc = "constructor"
    /\ promises = <<>>
    /\ vc = VcIdle
    /\ gs = GsIdle
    /\ ret = NoCall
    /\ issued = {}

\* The class without validateChain.
Next ==
    \/ Constructor
    \/ SubmitStar
    \/ Deliver
    \/ GiveUp
    \/ Tick

Spec == Init /\ [][Next]_vars

\* The class with validateChain calls interleaved at their await points;
\* the callers of submitStar wait for one outcome before the next call.
NextValidate ==
    \/ Constructor
    \/ promises = <<>> /\ SubmitStar
    \/ Deliver
    \/ GiveUp
    \/ Tick
    \/ ValidateChainCall
    \/ ValidateChainEnterLoop
    \/ ValidateChainIteration
    \/ ValidateChainDeliver

SpecValidate == Init /\ [][NextValidate]_vars

----------------------------------------------------------------------------
(* A ledger whose stored blocks are changed behind the class: this.chain   *)
(* is a plain public array of plain objects.                               *)

\* chain[i].body = <forged>: the stored hash is left as it was.
TamperBody ==
    /\ pc = "ready"
    /\ vc.pc = "idle"
    /\ promises = <<>>
    /\ \E i \in 0..(Len(chain) - 1) :
          /\ At(i).body # ForgedBody
          /\ chain' = [chain EXCEPT ![i + 1].body = ForgedBody]
    /\ UNCHANGED <<height, nowMs, pc, promises, vc, gs, ret, issued>>

\* chain[i].previousBlockHash = <forged>: the stored hash is left as it was.
TamperLink ==
    /\ pc = "ready"
    /\ vc.pc = "idle"
    /\ promises = <<>>
    /\ \E i \in 0..(Len(chain) - 1) :
          /\ At(i).previousBlockHash # ForgedHash
          /\ chain' = [chain EXCEPT ![i + 1].previousBlockHash = ForgedHash]
    /\ UNCHANGED <<height, nowMs, pc, promises, vc, gs, ret, issued>>

\* The submissions that pass both checks at construction time.
AcceptedCalls ==
    { c \in Calls :
        /\ c.message = requestMessageOwnershipVerification(c.address, StartMs)
        /\ c.signature = Sign(c.message, c.address) }

\* One accepted submission, made while no validateChain call is running.
SubmitAccepted ==
    /\ vc.pc = "idle"
    /\ promises = <<>>
    /\ \E c \in AcceptedCalls :
          SubmitStarCall(c.address, c.message, c.signature, c.star)

\* validateChain run over a ledger at rest, tampered or not.
NextTamper ==
    \/ Constructor
    \/ SubmitAccepted
    \/ Deliver
    \/ TamperBody
    \/ TamperLink
    \/ ValidateChainCall
    \/ ValidateChainEnterLoop
    \/ ValidateChainIteration
    \/ ValidateChainDeliver

SpecTamper == Init /\ [][NextTamper]_vars

----------------------------------------------------------------------------
(* getStarsByWalletAddress over a ledger at rest.                          *)

\* The stars of the submissions made here: two, so that two claims of one
\* address differ.
QueryStars == {"star1", "star2"}

\* The accepted submissions with these stars.
QueryCalls ==
    { [c EXCEPT !.star = st] : c \in AcceptedCalls, st \in QueryStars }

\* One accepted submission, made while no query is running.
SubmitQuery ==
    /\ gs.pc = "idle"
    /\ promises = <<>>
    /\ \E c \in QueryCalls :
          SubmitStarCall(c.address, c.message, c.signature, c.star)

\* chain[i].body = <not the hex of a JSON text>, while no query is running.
CorruptStoredBody ==
    /\ pc = "ready"
    /\ gs.pc = "idle"
    /\ promises = <<>>
    /\ \E i \in 0..(Len(chain) - 1) :
          /\ At(i).body # CorruptBody
          /\ chain' = [chain EXCEPT ![i + 1].body = CorruptBody]
    /\ UNCHANGED <<height, nowMs, pc, promises, vc, gs, ret, issued>>

NextQuery ==
    \/ Constructor
    \/ SubmitQuery
    \/ Deliver
    \/ CorruptStoredBody
    \/ GetStarsCall
    \/ GetStarsLoop
    \/ GetStarsDeliver

SpecQuery == Init /\ [][NextQuery]_vars

----------------------------------------------------------------------------
(* The class with its lookups and with initializeChain called again.       *)

NextReads ==
    \/ Constructor
    \/ promises = <<>> /\ ret = NoCall /\ SubmitStar
    \/ Deliver
    \/ GiveUp
    \/ ret = NoCall /\ Tick
    \/ GetBlockByHeight
    \/ GetBlockByHash
    \/ InitializeChainCall
    \/ Return

SpecReads == Init /\ [][NextReads]_vars

----------------------------------------------------------------------------
(* validateChain and getStarsByWalletAddress interleaved, at their await   *)
(* points, with accepted submissions.                                      *)

\* One accepted submission, whatever the two readers are doing.
SubmitConcurrent ==
    /\ promises = <<>>
    /\ \E c \in QueryCalls :
          SubmitStarCall(c.address, c.message, c.signature, c.star)

NextConcurrent ==
    \/ Constructor
    \/ SubmitConcurrent
    \/ Deliver
    \/ ValidateChainCall
    \/ ValidateChainEnterLoop
    \/ ValidateChainIteration
    \/ ValidateChainDeliver
    \/ GetStarsCall
    \/ GetStarsLoop
    \/ GetStarsDeliver

SpecConcurrent == Init /\ [][NextConcurrent]_vars

----------------------------------------------------------------------------
(* Challenges handed out beside the submissions.                           *)

NextChallenge ==
    \/ Constructor
    \/ promises = <<>> /\ SubmitStar
    \/ Deliver
    \/ GiveUp
    \/ Tick
    \/ RequestMessage

SpecChallenge == Init /\ [][NextChallenge]_vars

----------------------------------------------------------------------------
(* The claims.                                                             *)

\* The indices of the source's chain array.
Indices == 0..(Len(chain) - 1)

\* s is a prefix of t.
IsPrefix(s, t) == Len(s) <= Len(t) /\ SubSeq(t, 1, Len(s)) = s

\* C1. Hash linkage: in every reachable state, every block but the first
\* stores as previousBlockHash the hash of the block before it.
C1_HashLinkage ==
    \A i \in Indices : i >= 1 => At(i).previousBlockHash = At(i - 1).hash

\* C1 witness: two submissions were accepted and one was rejected.
C1_Witness ==
    /\ Len(chain) = 3
    /\ At(2).previousBlockHash = At(1).hash
    /\ \E k \in 1..Len(promises) : promises[k].state = "rejected"

\* C2. Contiguous heights: the block at index i has height i, and
\* this.height, which getChainHeight returns, is chain.length - 1, the
\* height of the last block.
C2_ContiguousHeights ==
    /\ \A i \in Indices : At(i).height = i
    /\ getChainHeight = Len(chain) - 1
    /\ Len(chain) > 0 => getChainHeight = chain[Len(chain)].height

\* C2 witness: a chain of three blocks at height 2.
C2_Witness ==
    /\ Len(chain) = 3
    /\ height = 2
    /\ At(2).height = 2

\* The genesis block is in place: height 0, no previous hash, the
\* genesis body.
GenesisPresent ==
    /\ Len(chain) >= 1
    /\ At(0).height = 0
    /\ At(0).previousBlockHash = Null
    /\ Decode(At(0).body) = [data |-> "Genesis Block"]

\* C3. Genesis presence: the step that ends the constructor leaves exactly
\* one block, the genesis block; from then on the chain is never empty and
\* its first block stays the genesis block; no block a submitStar promise
\* resolves with has height 0.
C3_GenesisPresence ==
    /\ [](pc = "ready" => GenesisPresent)
    /\ [](\A k \in 1..Len(promises) :
            promises[k].state = "fulfilled" => promises[k].value.height >= 1)
    /\ [][pc = "constructor" /\ pc' = "ready" => Len(chain') = 1]_vars

\* C3 witness: a submitStar issued at the moment of construction was
\* accepted and got height 1 behind the genesis block.
C3_Witness ==
    /\ pc = "ready"
    /\ nowMs = StartMs
    /\ Len(chain) = 2
    /\ GenesisPresent
    /\ \E k \in 1..Len(promises) :
         promises[k].state = "fulfilled" /\ promises[k].value.height = 1

\* C4. Append-only: every step leaves the chain it found as a prefix of the
\* chain it leaves, so no stored block is removed, moved or changed in any
\* field.
C4_AppendOnly == [][IsPrefix(chain, chain')]_vars

\* C4 witness: the chain grew to three blocks while a validateChain call
\* was between two of its awaits.
C4_Witness ==
    /\ Len(chain) = 3
    /\ vc.pc = "awaitValidate"
    /\ vc.chainlen < height

\* Every character of s is a decimal digit, and there is one at least.
IsNumeric(s) == s # <<>> /\ \A k \in 1..Len(s) : IsDigit(s[k])

\* message is exactly three colon-separated fields, the second a number.
WellFormed(message) ==
    LET fields == split(message, ":")
    IN Len(fields) = 3 /\ IsNumeric(fields[2])

\* The calls of Calls, each with the timestamp embedded in its message,
\* whether the message is well-formed and whether the signature is
\* address's over message.
ClaimCalls ==
    { [call |-> c, sent |-> sent_time(c.message),
       wellFormed |-> WellFormed(c.message),
       signed |-> c.signature = Sign(c.message, c.address),
       garbage |-> c.signature = Garbage] : c \in Calls }

\* The step is the submitStar call d.call.
IsCall(d) ==
    SubmitStarCall(d.call.address, d.call.message, d.call.signature,
                   d.call.star)

\* The step is a submitStar call.
IsSubmitStep == Len(promises') = Len(promises) + 1

\* The promise the last submitStar call returned.
LastPromise(ps) == ps[Len(ps)]

\* The step rejects the call through the given branch: nothing is
\* appended and the promise is rejected with null.
Rejects(err_msg) ==
    /\ chain' = chain
    /\ height' = height
    /\ LastPromise(promises') = Promise("rejected", Null, err_msg)

\* The step appends one block for call c as C5 says, and resolves with it.
AppendsFor(c) ==
    LET block == chain'[Len(chain')]
    IN /\ Len(chain') = Len(chain) + 1
       /\ IsPrefix(chain, chain')
       /\ block.height = Len(chain)
       /\ block.previousBlockHash = chain[Len(chain)].hash
       /\ Decode(block.body) =
            [address |-> c.address, message |-> c.message,
             signature |-> c.signature, star |-> c.star]
       /\ LastPromise(promises') = Promise("fulfilled", block, "")

\* C5. Successful submit: a submitStar whose message timestamp is less than
\* 300 seconds old and whose signature is address's over message appends
\* exactly one block, at height = the chain length before the call, linked
\* to the block that was last, with a body that decodes to {address,
\* message, signature, star}; the promise resolves with that block.
\* (Each implication "the step is this call => outcome" is written
\* outcome \/ ~IsCall.)
C5_SuccessfulSubmit ==
    [][IsSubmitStep =>
       \A d \in ClaimCalls :
         (d.signed /\ ~d.sent.nan /\ curr_time.val - d.sent.val < 300)
         => (AppendsFor(d.call) \/ ~IsCall(d))
      ]_vars

\* C5 witness: a submission made 299 seconds after the challenge was
\* accepted as block 1, behind the genesis block.
C5_Witness ==
    /\ Len(chain) = 2
    /\ At(1).time = EpochSeconds(StartMs + 299000)
    /\ At(1).previousBlockHash = At(0).hash
    /\ Len(promises) = 1
    /\ promises[1] = Promise("fulfilled", At(1), "")

\* C6. Expired challenge: a submitStar whose message is 300 seconds old or
\* older is rejected through the time branch, with the chain and the height
\* as they were, whatever the signature; one whose message is younger than
\* 300 seconds is not rejected through the time branch.
C6_ExpiredChallenge ==
    [][IsSubmitStep =>
       \A d \in ClaimCalls :
         ~d.sent.nan
         => IF curr_time.val - d.sent.val >= 300
            THEN Rejects(TimeLapsedMsg) \/ ~IsCall(d)
            ELSE LastPromise(promises').err_msg # TimeLapsedMsg \/ ~IsCall(d)
      ]_vars

\* C6 witness: of two calls with the same challenge, the one made after 299
\* seconds was accepted and the one made after 300 seconds was rejected
\* through the time branch.
C6_Witness ==
    /\ nowMs = StartMs + 300000
    /\ Len(promises) = 2
    /\ promises[1].state = "fulfilled"
    /\ promises[1].value.time = EpochSeconds(StartMs + 299000)
    /\ promises[2] = Promise("rejected", Null, TimeLapsedMsg)

C8_MalformedChallenge ==
    [][IsSubmitStep =>
       \A d \in ClaimCalls :
         ~d.wellFormed
         => \/ chain' = chain /\ LastPromise(promises').state # "fulfilled"
            \/ ~IsCall(d)
      ]_vars

\* C9. Race-free append: whatever submitStar calls are outstanding together,
\* no two blocks of the chain have the same height or the same
\* previousBlockHash, the blocks the outstanding promises resolve with are
\* distinct blocks of the chain, and the chain is linked with contiguous
\* heights.
C9_RaceFreeAppend ==
    /\ \A i, j \in Indices :
         i # j => /\ At(i).height # At(j).height
                  /\ At(i).previousBlockHash # At(j).previousBlockHash
    /\ \A k \in 1..Len(promises) :
         promises[k].state = "fulfilled" =>
           /\ promises[k].value.height \in Indices
           /\ At(promises[k].value.height) = promises[k].value
    /\ \A k, l \in 1..Len(promises) :
         (k # l /\ promises[k].state = "fulfilled"
                /\ promises[l].state = "fulfilled") =>
           /\ promises[k].value.height # promises[l].value.height
           /\ promises[k].value.previousBlockHash #
                promises[l].value.previousBlockHash
    /\ \A i \in Indices :
         /\ At(i).height = i
         /\ i >= 1 => At(i).previousBlockHash = At(i - 1).hash

\* C9 witness: two accepted submissions are outstanding at once.
C9_Witness ==
    /\ Len(chain) = 3
    /\ Len(promises) = 2
    /\ promises[1] = Promise("fulfilled", At(1), "")
    /\ promises[2] = Promise("fulfilled", At(2), "")

\* C10. validateChain on an untampered chain, as claimed: the promise
\* resolves with an empty list of violations.
C10_EmptyViolationList ==
    vc.pc = "resolved" => vc.result = JsArray(<<>>)

----------------------------------------------------------------------------
(* validateChain over a tampered ledger.                                   *)

\* The indices whose recomputed hash differs from the stored hash.
IntegrityViolations == {i \in Indices : ~BlockValidate(At(i))}

\* The indices, the last one left out, whose hash is not the previous hash
\* stored in the next block.
LinkViolations ==
    {i \in Indices : /\ i < Len(chain) - 1
                     /\ At(i).hash # At(i + 1).previousBlockHash}

\* The members of a set of numbers in ascending order.
RECURSIVE Ascending(_)
Ascending(S) ==
    IF S = {} THEN <<>>
    ELSE LET m == CHOOSE x \in S : \A y \in S : x <= y
         IN <<m>> \o Ascending(S \ {m})

\* The entries of a validateChain result: none for `true`.
Entries(result) == IF result = JsTrue THEN <<>> ELSE result[2]

LastIndex == Len(chain) - 1

\* Whether a validateChain result lists index i.
Reports(result, i) ==
    \E k \in 1..Len(Entries(result)) : Entries(result)[k] = i

\* C17: validateChain reports the last index exactly when the last block's
\* validate() result is not true: the last block is checked for integrity
\* only (there is no link check on it), and `!blocki_valid === true` lets no
\* invalid last block go unreported.
C17_LastBlockCheck ==
    vc.pc = "resolved" =>
        (Reports(vc.result, LastIndex) <=> ~BlockValidate(At(LastIndex)))

\* A validateChain call has resolved reporting a tampered last block that
\* has a predecessor.
C17_Witness ==
    /\ vc.pc = "resolved"
    /\ LastIndex >= 1
    /\ ~BlockValidate(At(LastIndex))
    /\ Reports(vc.result, LastIndex)

----------------------------------------------------------------------------
(* getStarsByWalletAddress.                                                *)

\* The heights of the non-genesis blocks of the first n blocks whose decoded
\* body holds address.
OwnedBy(address, n) ==
    {i \in 1..(n - 1) :
        /\ Decodes(At(i).body)
        /\ "address" \in DOMAIN Decode(At(i).body)
        /\ Decode(At(i).body).address = address}

\* The claims (address, star) of those blocks, in ascending height order.
ClaimsOf(address, n) ==
    LET order == Ascending(OwnedBy(address, n))
    IN [k \in 1..Len(order) |->
          [address |-> address, star |-> Decode(At(order[k]).body).star]]

\* C12: getStarsByWalletAddress(address) resolves with exactly the claims of
\* the non-genesis blocks whose decoded body address is the queried address,
\* one entry per block and in ascending height order.
C12_StarsOfAddress ==
    gs.pc = "resolved" =>
        gs.result = JsArray(ClaimsOf(gs.address, Len(chain)))

\* A query has resolved with two different claims of its address, the
\* claim of the lower block first.
C12_Witness ==
    /\ gs.pc = "resolved"
    /\ Len(gs.result[2]) = 2
    /\ gs.result[2][1] # gs.result[2][2]
    /\ gs.result[2][1].star = Decode(At(1).body).star

\* C13: when getStarsByWalletAddress has met a non-genesis block whose body
\* fails to decode, its promise is rejected.
C13_DecodeFailureSurfaced ==
    (/\ gs.pc \notin {"idle", "awaitHeight"}
     /\ \E i \in 1..gs.chainlen : ~Decodes(At(i).body))
        => gs.pc = "rejected"

----------------------------------------------------------------------------
(* Lookups, provenance, initializeChain called again.                      *)

\* A call of op returns in this step.
Returns(op) == ret = NoCall /\ ret'.op = op

\* C14: for every block b of the chain getBlockByHeight(b.height) and
\* getBlockByHash(b.hash) resolve with b itself, and for a height or a hash
\* that no block has they resolve with null; they never reject.
C14_Lookup ==
    [][/\ Returns("getBlockByHeight") =>
             /\ ret'.state = "fulfilled"
             /\ \A i \in Indices : At(i).height = ret'.arg => ret'.value = TheBlock(At(i))
             /\ (\A i \in Indices : At(i).height # ret'.arg) => ret'.value = Null
       /\ Returns("getBlockByHash") =>
             /\ ret'.state = "fulfilled"
             /\ \A i \in Indices : At(i).hash = ret'.arg => ret'.value = TheBlock(At(i))
             /\ (\A i \in Indices : At(i).hash # ret'.arg) => ret'.value = Null
      ]_vars

\* A lookup by the height of a non-genesis block has resolved with it.
C14_Witness ==
    /\ ret.op = "getBlockByHeight"
    /\ ret.arg >= 1
    /\ ret.arg < Len(chain)
    /\ ret.value = TheBlock(At(ret.arg))

\* C16: initializeChain called again after construction appends no second
\* genesis block and leaves chain and height as they are.
C16_InitializeChainIdempotent ==
    [][Returns("initializeChain") => UNCHANGED <<chain, height>>]_vars

\* initializeChain has been called again, after a submission was accepted.
C16_Witness ==
    /\ ret.op = "initializeChain"
    /\ Len(chain) >= 2

\* The block at index i holds a triple that verifies, and a message whose
\* timestamp lies less than 300 seconds before the block's time, the time
\* at which the time test of its submission ran.
PassedBothChecks(i) ==
    LET d == Decode(At(i).body)
        age == Minus(parseInt(At(i).time), sent_time(d.message))
    IN /\ BitcoinVerify(d.message, d.address, d.signature) = "true"
       /\ ~age.nan
       /\ age.val < MinutesLimit * SecondsPerMinute

\* C15: every block at index >= 1 was appended by a submitStar that passed
\* both checks, and the chain grows only by the genesis block in the
\* constructor or by one block in a submitStar step that resolves.
C15_Provenance ==
    /\ [](\A i \in 1..(Len(chain) - 1) : PassedBothChecks(i))
    /\ [][Len(chain') # Len(chain) =>
            \/ pc = "constructor" /\ chain = <<>> /\ Len(chain') = 1
            \/ /\ IsSubmitStep
               /\ LastPromise(promises').state = "fulfilled"
               /\ chain' = Append(chain, LastPromise(promises').value)
         ]_vars

\* The chain holds a block appended at a later clock value than genesis,
\* and lookups and initializeChain calls have run.
C15_Witness ==
    /\ Len(chain) = MaxChain
    /\ At(LastIndex).time # At(0).time
    /\ ret.op = "initializeChain"

----------------------------------------------------------------------------
(* Readers interleaved with appends.                                       *)

\* C18: interleaved with accepted submissions to an untampered chain,
\* validateChain never reads an index beyond the chain and reports no
\* violation, and getStarsByWalletAddress never reads beyond the chain and
\* resolves with the matching claims of a prefix of the chain that holds at
\* least the blocks the chain had when the call started.
C18_ConsistentReads ==
    /\ vc.pc # "stuck"
    /\ vc.pc = "resolved" => vc.result = JsTrue
    /\ gs.pc # "stuck"
    /\ gs.pc = "resolved" =>
          \E n \in gs.started..Len(chain) :
              gs.result = JsArray(ClaimsOf(gs.address, n))

\* The stars call has resolved without a claim that was appended between
\* its call and its loop, beside a validateChain call that has resolved.
C18_Witness ==
    /\ gs.pc = "resolved"
    /\ gs.result # JsArray(ClaimsOf(gs.address, Len(chain)))
    /\ vc.pc = "resolved"

----------------------------------------------------------------------------
(* Challenges and submissions.                                             *)

\* A block past genesis already holds the triple of call c.
AlreadyStored(c) ==
    \E i \in 1..(Len(chain) - 1) :
        LET d == Decode(At(i).body)
        IN /\ d.address = c.address
           /\ d.message = c.message
           /\ d.signature = c.signature

\* C19: handing out a challenge changes no ledger state, and a submission
\* whose message is less than 300 seconds old and whose signature verifies
\* for the address appends a block also when its message was never handed
\* out and also when a block already holds the same triple.
C19_StatelessChallenge ==
    /\ [][issued' # issued => UNCHANGED <<chain, height, promises>>]_vars
    /\ [][IsSubmitStep =>
           \A d \in ClaimCalls :
             (/\ d.signed
              /\ ~d.sent.nan
              /\ curr_time.val - d.sent.val < MinutesLimit * SecondsPerMinute
              /\ d.call.message \notin issued \/ AlreadyStored(d.call))
             => (AppendsFor(d.call) \/ ~IsCall(d))
         ]_vars

\* Two blocks hold the same triple, and its message was never handed out
\* although another one was.
C19_Witness ==
    /\ Len(chain) = 3
    /\ At(1).body = At(2).body
    /\ issued # {}
    /\ Decode(At(1).body).message \notin issued

\* C20: every submitStar call settles: its executor runs to its end without
\* an await, so the promise it returns is resolved or rejected as soon as
\* the call returns, and no promise is left pending.
C20_EverySubmissionSettles ==
    \A k \in 1..Len(promises) : promises[k].state # "pending"

====
